---- MODULE Spec2Model ----
(***************************************************************************)
(* QuantPulse frontend: the Session & Sync Orchestration Layer.            *)
(*                                                                         *)
(*   Part I   Authenticated Transport   (lib/api.ts, AuthContext.tsx,      *)
(*            AuthTabs.tsx)                                                 *)
(*   Part II  Sync Orchestrator         (components/layout/SyncWidget.tsx  *)
(*            = cooldown variant, components/ErrorBoundary.tsx = the        *)
(*            no-cooldown variant of SyncWidget)                            *)
(*                                                                         *)
(* Each part has its own specifications (TransportSpec; SyncSpec and       *)
(* StuckBackendSpec); a specification leaves the other part's variables    *)
(* untouched.                                                              *)
(***************************************************************************)
EXTENDS Integers, Sequences, FiniteSets, TLC

(***************************************************************************)
(* Bounds of the model.                                                    *)
(***************************************************************************)
\* number of application calls made through the transport in one run
MaxReq == 2
\* number of token pairs the auth server issues in one run
MaxIssue == 3

(***************************************************************************)
(*                    PART I : AUTHENTICATED TRANSPORT                     *)
(***************************************************************************)
VARIABLES
    token,         \* localStorage 'token'        (NoToken = absent)
    refreshToken,  \* localStorage 'refreshToken' (NoToken = absent)
    defaultsAuth,  \* api.defaults.headers.common['Authorization'] (NoToken = unset)
    issued,        \* auth server: number of token pairs issued so far; pair n is
                   \* {access_token: n, refresh_token: n}
    newestSeen,    \* history: highest-numbered pair the client has received
    navigations,   \* history: number of window.location.href = '/login'
    navPending,    \* a forced navigation has been requested, page not yet unloaded
    reqs           \* the application calls, by id

tvars == <<token, refreshToken, defaultsAuth, issued, newestSeen, navigations,
           navPending, reqs>>

\* The state of one mounted SyncWidget (Part II).
VARIABLES
    variant,            \* which SyncWidget source is mounted
    status,             \* useState status
    taskId,             \* useState taskId (NoTask = null)
    nextAutoSyncTime,   \* useState nextAutoSyncTime, as seconds left (NoTime = null)
    autoSyncInterval,   \* useState autoSyncInterval (0 = null)
    cooldownRemaining,  \* useState cooldownRemaining (cooldown variant)
    syncProgress,       \* useState syncProgress
    syncMessage,        \* useState syncMessage
    rendered,           \* what the closures of the last committed render captured
    isSyncingRef,       \* useRef isSyncingRef.current
    pendingCountRef,    \* useRef pendingCountRef.current (no-cooldown variant)
    phase,              \* wall clock, seconds modulo IntervalSecs
    jobs,               \* backend: state of each job
    nextJob,            \* backend: number of jobs asked for so far
    posts,              \* job-start requests in flight (by the job they would create)
    polls,              \* status polls in flight: task polled and interval captured
    fetches,            \* fetchStatus calls in progress
    revertTimers,       \* pending setTimeout(() => setStatus("IDLE"), 3000)
    settleTimers,       \* pending post-success setTimeout(..., 1000)
    live,               \* history: jobs this widget started whose end it has not seen
    startsSinceRender,  \* history: job-start requests issued since the last commit
    streak,             \* history: consecutive PENDING answers of the tracked job
    notified,           \* history: triggerRefresh() calls per job (2 = two or more)
    jobBudget,          \* scenario: how many jobs the run may hold (never changes)
    pollBudget,         \* scenario: how many polls may be in flight at once (never changes)
    limited,            \* retry_after of the 429 answer the last step handled (0: absent), else NoLimit
    polled,             \* job and status ("error": the request failed) of the poll the last step handled, else NoPoll
    fetched             \* origin, active_task_id and remaining_cooldown of the sync-status answer the last step handled, else NoFetch

svars == <<variant, status, taskId, nextAutoSyncTime, autoSyncInterval,
           cooldownRemaining, syncProgress, syncMessage, rendered, isSyncingRef,
           pendingCountRef, phase, jobs, nextJob, posts, polls, fetches,
           revertTimers, settleTimers, live, startsSinceRender, streak,
           notified, jobBudget, pollBudget, limited, polled,
           fetched>>

\* The pure functions under evaluation (Part III): arguments and results.
VARIABLES
    schedule,   \* next-auto-sync computation: its arguments and its result
    holdings,   \* aggregateBySymbol: the list passed in, as it is after the calls
    view,       \* aggregateBySymbol: the lists returned, in order of the calls
    counted     \* the list returned by the assetCount call on the same raw list

pvars == <<schedule, holdings, view, counted>>

\* localStorage.getItem(..) === null / header not set
NoToken == 0

ReqIds == 1..MaxReq

\* Calls are numbered in the order they are made.
NextFree(r) == \A q \in ReqIds : q < r => reqs[q].st # "idle"

\* An application call (one axios config object and its promise).
\*   url     "none" (slot unused), "api" (any non-auth endpoint),
\*           "auth" (/auth/token or /auth/register)
\*   st      where the call is:
\*             "idle"        not made yet
\*             "inflight"    original request at the server
\*             "authResp"    login/register answered by the server, not yet handled
\*             "refreshing"  POST /auth/refresh at the server
\*             "refreshResp" refresh answered by the server, not yet handled
\*             "replaying"   replay of the original request at the server
\*             "done"        promise settled (or page unloaded)
\*   retry   originalRequest._retry
\*   hdr     Authorization header of the last send (NoToken = none)
\*   tokAtSend  localStorage 'token' at that send
\*   rt      refresh_token sent in the refresh call
\*   pay     token pair in the server's answer (NoToken = the call failed)
\*   refreshCalls, replays, navs   history counters of this call
\*   saw     statuses received for it, in order
\*   outcome "pending", "ok200", "rejOrig" (rejected with the error of the
\*           response just handled), "rejRefresh" (rejected with refreshError),
\*           "aborted" (page unloaded)
NewReq ==
    [url |-> "none", st |-> "idle", retry |-> FALSE, hdr |-> NoToken,
     tokAtSend |-> NoToken, rt |-> NoToken, pay |-> NoToken,
     refreshCalls |-> 0, replays |-> 0, navs |-> 0, sends |-> 0,
     saw |-> <<>>, outcome |-> "pending"]

Max2(a, b) == IF a >= b THEN a ELSE b

\* api.interceptors.request: the header a send carries.  axios merges
\* defaults.headers.common into config.headers before the interceptor runs;
\* the interceptor overwrites Authorization only when a token is stored.
RequestHeader(tok, dflt, own) ==
    IF tok # NoToken THEN tok
    ELSE IF own # NoToken THEN own
    ELSE dflt

TInit ==
    /\ token \in {NoToken, 1}
    /\ refreshToken = token
    /\ defaultsAuth = NoToken
    /\ issued = IF token = NoToken THEN 0 ELSE 1
    /\ newestSeen = issued
    /\ navigations = 0
    /\ navPending = FALSE
    /\ reqs = [r \in ReqIds |-> NewReq]

\* Any component calls api.get/post on a non-auth endpoint.
SendApi(r) ==
    /\ reqs[r].st = "idle" /\ NextFree(r)
    /\ reqs' = [reqs EXCEPT ![r] =
                  [@ EXCEPT !.url = "api", !.st = "inflight",
                            !.hdr = RequestHeader(token, defaultsAuth, NoToken),
                            !.tokAtSend = token, !.sends = 1]]
    /\ UNCHANGED <<token, refreshToken, defaultsAuth, issued, newestSeen,
                   navigations, navPending>>
    /\ UNCHANGED <<svars, pvars>>

\* AuthTabs.handleSubmit: clear both tokens, then POST /auth/token or
\* /auth/register through the transport.
SubmitAuth(r) ==
    /\ reqs[r].st = "idle" /\ NextFree(r)
    /\ token' = NoToken
    /\ refreshToken' = NoToken
    /\ reqs' = [reqs EXCEPT ![r] =
                  [@ EXCEPT !.url = "auth", !.st = "inflight",
                            !.hdr = RequestHeader(NoToken, defaultsAuth, NoToken),
                            !.tokAtSend = NoToken, !.sends = 1]]
    /\ UNCHANGED <<defaultsAuth, issued, newestSeen, navigations, navPending>>
    /\ UNCHANGED <<svars, pvars>>

\* The auth server answers a login/register call: a new token pair, or 401.
ServerAuth(r, ok) ==
    /\ reqs[r].st = "inflight" /\ reqs[r].url = "auth"
    /\ ok => issued < MaxIssue
    /\ issued' = IF ok THEN issued + 1 ELSE issued
    /\ reqs' = [reqs EXCEPT ![r] =
                  [@ EXCEPT !.st = "authResp",
                            !.pay = IF ok THEN issued + 1 ELSE NoToken]]
    /\ UNCHANGED <<token, refreshToken, defaultsAuth, newestSeen, navigations,
                   navPending>>
    /\ UNCHANGED <<svars, pvars>>

\* AuthContext.login(access_token, refresh_token) on a 2xx answer.
login(r) ==
    /\ token' = reqs[r].pay
    /\ refreshToken' = reqs[r].pay
    /\ newestSeen' = Max2(newestSeen, reqs[r].pay)
    /\ reqs' = [reqs EXCEPT ![r] =
                  [@ EXCEPT !.st = "done", !.outcome = "ok200",
                            !.saw = Append(@, 200)]]
    /\ UNCHANGED <<defaultsAuth, issued, navigations, navPending>>

\* A 2xx answer to the original request or to its replay:
\* api.interceptors.response success handler, (response) => response.
Response200(r) ==
    /\ reqs[r].st \in {"inflight", "replaying"} /\ reqs[r].url = "api"
    /\ reqs' = [reqs EXCEPT ![r] =
                  [@ EXCEPT !.st = "done", !.outcome = "ok200",
                            !.saw = Append(@, 200)]]
    /\ UNCHANGED <<token, refreshToken, defaultsAuth, issued, newestSeen,
                   navigations, navPending>>
    /\ UNCHANGED <<svars, pvars>>

\* An error answer other than 401 (or a 401 on a request already marked
\* _retry): falls through to the final Promise.reject(error).
RejectError(r, code) ==
    /\ reqs' = [reqs EXCEPT ![r] =
                  [@ EXCEPT !.st = "done", !.outcome = "rejOrig",
                            !.saw = Append(@, code)]]
    /\ UNCHANGED <<token, refreshToken, defaultsAuth, issued, newestSeen,
                   navigations, navPending>>

\* Fault: the terminal branch forgets to remove the access token.
ClearAndRedirect_KeepsToken(r, how, code) ==
    /\ refreshToken' = NoToken
    /\ navigations' = navigations + 1
    /\ navPending' = TRUE
    /\ reqs' = [reqs EXCEPT ![r] =
                  [@ EXCEPT !.st = "done", !.retry = TRUE, !.outcome = how,
                            !.navs = @ + 1, !.saw = @ \o code]]
    /\ UNCHANGED <<token, defaultsAuth, issued, newestSeen>>

\* The terminal branch shared by "no refresh token" and "refresh failed":
\* remove both tokens, force navigation to /login, reject.  (_retry was set
\* before the try block in both cases; `code` is the answer just received for
\* the call itself, if any.)
ClearAndRedirect(r, how, code) ==
    /\ token' = NoToken
    /\ refreshToken' = NoToken
    /\ navigations' = navigations + 1
    /\ navPending' = TRUE
    /\ reqs' = [reqs EXCEPT ![r] =
                  [@ EXCEPT !.st = "done", !.retry = TRUE, !.outcome = how,
                            !.navs = @ + 1, !.saw = @ \o code]]
    /\ UNCHANGED <<defaultsAuth, issued, newestSeen>>

\* The refresh call leaves: axios.post(.../auth/refresh, {refresh_token}).
\* It does not go through the api instance, so no interceptor touches it.
StartRefresh(r) ==
    /\ reqs' = [reqs EXCEPT ![r] =
                  [@ EXCEPT !.st = "refreshing", !.retry = TRUE,
                            !.rt = refreshToken, !.refreshCalls = @ + 1,
                            !.saw = Append(@, 401)]]
    /\ UNCHANGED <<token, refreshToken, defaultsAuth, issued, newestSeen,
                   navigations, navPending>>

\* Fault: the _retry flag is not consulted.
ShouldRefresh_NoFlag(req) == TRUE

\* The guard of the refresh branch: status 401 and not yet retried.
ShouldRefresh(req) == ~req.retry

\* Variant without the exemption of the login and register calls.
IsAuthEndpoint_Never(req) == FALSE

\* url.includes('/auth/token') || url.includes('/auth/register')
IsAuthEndpoint(req) == req.url = "auth"

\* api.interceptors.response error handler on a 401 answer.
ErrorHandler401(r) ==
    IF ~ShouldRefresh(reqs[r]) THEN RejectError(r, 401)
    ELSE IF IsAuthEndpoint(reqs[r]) THEN RejectError(r, 401)
    ELSE IF refreshToken = NoToken THEN ClearAndRedirect(r, "rejOrig", <<401>>)
    ELSE StartRefresh(r)

\* A 401 answer to the original request or to its replay.
Response401(r) ==
    /\ reqs[r].st \in {"inflight", "replaying"} /\ reqs[r].url = "api"
    /\ ErrorHandler401(r)
    /\ UNCHANGED <<svars, pvars>>

\* The client handles the answer of a login/register call: login() on 2xx,
\* the response interceptor's error handler on 401.
AuthResponse(r) ==
    /\ reqs[r].st = "authResp"
    /\ IF reqs[r].pay # NoToken
       THEN login(r)
       ELSE ErrorHandler401(r)
    /\ UNCHANGED <<svars, pvars>>

\* api.interceptors.response error handler, for any other failure (5xx, 429,
\* network error) of the original request or its replay.
ResponseOtherError(r) ==
    /\ reqs[r].st \in {"inflight", "replaying"} /\ reqs[r].url = "api"
    /\ RejectError(r, 500)
    /\ UNCHANGED <<svars, pvars>>

\* The auth server answers POST /auth/refresh: a new token pair, or a failure.
ServerRefresh(r, ok) ==
    /\ reqs[r].st = "refreshing"
    /\ ok => issued < MaxIssue
    /\ issued' = IF ok THEN issued + 1 ELSE issued
    /\ reqs' = [reqs EXCEPT ![r] =
                  [@ EXCEPT !.st = "refreshResp",
                            !.pay = IF ok THEN issued + 1 ELSE NoToken]]
    /\ UNCHANGED <<token, refreshToken, defaultsAuth, newestSeen, navigations,
                   navPending>>
    /\ UNCHANGED <<svars, pvars>>

\* Fault: the replay leaves with the header of the failed send.
StoreAndReplay_StaleHeader(r) ==
    /\ token' = reqs[r].pay
    /\ refreshToken' = reqs[r].pay
    /\ defaultsAuth' = reqs[r].pay
    /\ newestSeen' = Max2(newestSeen, reqs[r].pay)
    /\ reqs' = [reqs EXCEPT ![r] =
                  [@ EXCEPT !.st = "replaying", !.replays = @ + 1,
                            !.sends = @ + 1,
                            !.hdr = RequestHeader(token, defaultsAuth, reqs[r].hdr),
                            !.tokAtSend = token]]
    /\ UNCHANGED <<issued, navigations, navPending>>

\* The token replacement after a successful refresh, and the replay.
StoreAndReplay(r) ==
    /\ token' = reqs[r].pay
    /\ refreshToken' = reqs[r].pay
    /\ defaultsAuth' = reqs[r].pay
    /\ newestSeen' = Max2(newestSeen, reqs[r].pay)
    /\ reqs' = [reqs EXCEPT ![r] =
                  [@ EXCEPT !.st = "replaying", !.replays = @ + 1,
                            !.sends = @ + 1,
                            !.hdr = RequestHeader(token', defaultsAuth', reqs[r].pay),
                            !.tokAtSend = token']]
    /\ UNCHANGED <<issued, navigations, navPending>>

\* The continuation after `await axios.post(.../auth/refresh)`.
RefreshResponse(r) ==
    /\ reqs[r].st = "refreshResp"
    /\ IF reqs[r].pay # NoToken
       THEN StoreAndReplay(r)
       ELSE ClearAndRedirect(r, "rejRefresh", <<>>)
    /\ UNCHANGED <<svars, pvars>>

\* AuthContext.logout (also DashboardPage.handleLogout): remove both tokens
\* and router.push('/login'), a client-side navigation that keeps the page.
logout ==
    /\ token # NoToken \/ refreshToken # NoToken
    /\ token' = NoToken
    /\ refreshToken' = NoToken
    /\ UNCHANGED <<defaultsAuth, issued, newestSeen, navigations, navPending, reqs>>
    /\ UNCHANGED <<svars, pvars>>

\* window.location.href = '/login' takes effect: the document is unloaded, the
\* api module is re-created (defaults lost), pending calls never settle.
\* localStorage survives.
PageLoad ==
    /\ navPending
    /\ navPending' = FALSE
    /\ defaultsAuth' = NoToken
    /\ reqs' = [r \in ReqIds |->
                  IF reqs[r].st \in {"idle", "done"} THEN reqs[r]
                  ELSE [reqs[r] EXCEPT !.st = "done", !.outcome = "aborted"]]
    /\ UNCHANGED <<token, refreshToken, issued, newestSeen, navigations>>
    /\ UNCHANGED <<svars, pvars>>

TNext ==
    \/ \E r \in ReqIds : SendApi(r)
    \/ \E r \in ReqIds : SubmitAuth(r)
    \/ \E r \in ReqIds, ok \in BOOLEAN : ServerAuth(r, ok)
    \/ \E r \in ReqIds : AuthResponse(r)
    \/ \E r \in ReqIds : Response200(r)
    \/ \E r \in ReqIds : Response401(r)
    \/ \E r \in ReqIds : ResponseOtherError(r)
    \/ \E r \in ReqIds, ok \in BOOLEAN : ServerRefresh(r, ok)
    \/ \E r \in ReqIds : RefreshResponse(r)
    \/ logout
    \/ PageLoad

(***************************************************************************)
(*                      PART II : SYNC ORCHESTRATOR                        *)
(*                                                                         *)
(* One mounted SyncWidget.  `variant` selects the source file:             *)
(*   "cooldown"    components/layout/SyncWidget.tsx                        *)
(*   "nocooldown"  components/ErrorBoundary.tsx (second half of the file)  *)
(*                                                                         *)
(* React semantics kept by the model: a handler reads the state captured   *)
(* by the closures of the last committed render (`rendered`) and queues    *)
(* its writes (the plain variables status, taskId, ...); Render commits    *)
(* them and re-creates the effects.  Updates made in a click handler are   *)
(* flushed at the end of the event; updates made in timer and network      *)
(* callbacks wait for Render.  Refs are read and written directly.         *)
(*                                                                         *)
(* Time is in whole seconds.  The clock is kept modulo the auto-sync       *)
(* interval (`phase`), and nextAutoSyncTime as the number of seconds left  *)
(* until it (`NoTime` = null, 0 = due or overdue).                         *)
(***************************************************************************)
\* jobs in one run: POST /dashboard/refresh requests of this widget, plus the
\* job a mount may find already running (a scenario may allow fewer: jobBudget)
MaxJobs == 2
\* status polls in flight at the same time
MaxPolls == 1
\* polls in flight at once on a slow connection
OverlapPolls == 2

\* auto_sync_interval configured on the server, in seconds
IntervalSecs == 2
\* largest retry_after / remaining_cooldown the server reports, in seconds
MaxCooldown == 2

\* (The state of the widget is declared with the variables of Part I.)

\* useState<string | null>(null)
NoTask == 0
\* useState<Date | null>(null)
NoTime == -1
\* `if (pendingCountRef.current > 12)`
PendingLimit == 12
\* `error.response.data.detail.retry_after || 20`
DefaultRetryAfter == 20
\* no 429 answer was handled by the last step
NoLimit == -1
\* no poll answer was handled by the last step
NoPoll == [task |-> NoTask, st |-> "none"]
\* no sync-status answer was handled by the last step
NoFetch == [origin |-> "none", active |-> NoTask, rem |-> 0]

JobIds == 1..MaxJobs

\* retry_after / remaining_cooldown values (0 = absent)
CooldownValues == 0..MaxCooldown

Variants == {"cooldown", "nocooldown"}
HasCooldown == variant = "cooldown"

\* What the closures capture.
Snapshot ==
    [status |-> status, taskId |-> taskId, next |-> nextAutoSyncTime,
     interval |-> autoSyncInterval]

\* React has committed every queued update: the closures are current.
\* Timer and network callbacks run in this state (React commits the updates
\* of one callback before the next one runs); a click may come earlier.
Quiescent == rendered = Snapshot

\* Math.ceil((now + 1000) / msPerInterval) * msPerInterval, as seconds from
\* now, for a clock at `ph` seconds past a multiple of the interval.
EpochAligned(ph) == IntervalSecs - ph

\* Seconds left one second later (0 = due or overdue).
Later(t) == IF t = NoTime THEN NoTime ELSE IF t > 0 THEN t - 1 ELSE 0

\* The "Load cached state immediately" effect: from localStorage hints only.
\*   hasInterval  auto_sync_interval is cached
\*   hasLast      last_sync_time is cached;  left = seconds until
\*                last + interval (cooldown variant)
CachedNext(v, hasInterval, hasLast, ph, left) ==
    IF ~(hasInterval /\ hasLast) THEN NoTime
    ELSE IF v = "nocooldown" THEN EpochAligned(ph)
    ELSE left

\* After mount: first render done, cached hints applied, the mount's
\* fetchStatus() in flight.  The backend may already run a job (job 1).
SInit ==
    /\ variant \in Variants
    /\ status = "IDLE"
    /\ taskId = NoTask
    /\ phase \in 0..(IntervalSecs - 1)
    /\ \E hasInterval \in BOOLEAN, hasLast \in BOOLEAN, left \in 0..IntervalSecs :
          /\ autoSyncInterval = IF hasInterval THEN IntervalSecs ELSE 0
          /\ nextAutoSyncTime = CachedNext(variant, hasInterval, hasLast, phase, left)
    /\ cooldownRemaining = 0
    /\ syncProgress = 0
    /\ syncMessage = "Initializing..."
    /\ rendered = Snapshot
    /\ isSyncingRef = FALSE
    /\ pendingCountRef = 0
    /\ \E running \in BOOLEAN :
          /\ jobs = [j \in JobIds |-> IF running /\ j = 1 THEN "PENDING" ELSE "none"]
          /\ nextJob = IF running THEN 1 ELSE 0
    /\ posts = {}
    /\ polls = <<>>
    /\ fetches = <<[origin |-> "mount", stage |-> "status", task |-> NoTask,
                    rem |-> 0]>>
    /\ revertTimers = 0
    /\ settleTimers = 0
    /\ live = {}
    /\ startsSinceRender = 0
    /\ streak = 0
    /\ notified = [j \in JobIds |-> 0]
    /\ limited = NoLimit
    /\ polled = NoPoll
    /\ fetched = NoFetch

\* React commits the queued state updates; effects are re-created with new
\* closures.
Render ==
    /\ ~Quiescent
    /\ rendered' = Snapshot
    /\ startsSinceRender' = 0
    /\ UNCHANGED <<variant, status, taskId, nextAutoSyncTime, autoSyncInterval,
                   cooldownRemaining, syncProgress, syncMessage, isSyncingRef,
                   pendingCountRef, phase, jobs, nextJob, posts, polls,
                   fetches, revertTimers, settleTimers, live, streak, notified>>
    /\ limited' = NoLimit
    /\ polled' = NoPoll
    /\ fetched' = NoFetch
    /\ UNCHANGED <<tvars, pvars, jobBudget, pollBudget>>

\* The guard at the top of handleSync, on the status its closure captured.
HandleSyncRefuses(v, st) ==
    IF v = "cooldown" THEN st \in {"SYNCING", "COOLDOWN"} ELSE st = "SYNCING"

\* The button's `disabled` attribute, as rendered.
ButtonDisabled(v, st) ==
    IF v = "cooldown" THEN st \notin {"IDLE", "ERROR"} ELSE st = "SYNCING"

\* handleSync up to its await: clear the auto-sync time, enter SYNCING, reset
\* progress and message, set the ref, send POST /dashboard/refresh.
\* (rendered, startsSinceRender and phase are left to the caller.)
handleSync ==
    /\ ~HandleSyncRefuses(variant, rendered.status)
    /\ nextJob < jobBudget
    /\ nextAutoSyncTime' = NoTime
    /\ status' = "SYNCING"
    /\ syncProgress' = 0
    /\ syncMessage' = "Initializing..."
    /\ isSyncingRef' = TRUE
    /\ nextJob' = nextJob + 1
    /\ posts' = posts \cup {nextJob + 1}
    /\ live' = live \cup {nextJob + 1}
    /\ streak' = 0
    /\ UNCHANGED <<variant, taskId, autoSyncInterval, cooldownRemaining,
                   pendingCountRef, jobs, polls, fetches, revertTimers,
                   settleTimers, notified>>

\* The user clicks the button: onClick={handleSync} of the last render; React
\* flushes the updates of a click before the event returns.
Click ==
    /\ ~ButtonDisabled(variant, rendered.status)
    /\ handleSync
    /\ rendered' = [status |-> status', taskId |-> taskId',
                    next |-> nextAutoSyncTime', interval |-> autoSyncInterval']
    /\ startsSinceRender' = 0
    /\ UNCHANGED phase
    /\ limited' = NoLimit
    /\ polled' = NoPoll
    /\ fetched' = NoFetch
    /\ UNCHANGED <<tvars, pvars, jobBudget, pollBudget>>

\* The cooldown branch of the 1-second timer:
\* setCooldownRemaining(prev => prev <= 1 ? (setStatus("IDLE"), 0) : prev - 1)
CooldownTick ==
    /\ cooldownRemaining' = IF cooldownRemaining <= 1 THEN 0 ELSE cooldownRemaining - 1
    /\ status' = IF cooldownRemaining <= 1 THEN "IDLE" ELSE status

\* Fault: the timer starts the sync as soon as a next time is known.
AutoSyncDue_AnyCountdown(snap) == snap.next # NoTime /\ snap.status = "IDLE"

\* Whether the 1-second timer calls handleSync: a next auto-sync time is
\* known, status is IDLE (both as captured) and the countdown is <= 0.
AutoSyncDue(snap) ==
    snap.next # NoTime /\ snap.status = "IDLE" /\ snap.next <= 0

\* One second passes and the 1-second interval callback runs.
Tick ==
    /\ Quiescent
    /\ phase' = (phase + 1) % IntervalSecs
    /\ LET snap == [rendered EXCEPT !.next = Later(@)] IN
       /\ rendered' = snap
       /\ IF HasCooldown /\ snap.status = "COOLDOWN"
          THEN /\ CooldownTick
               /\ nextAutoSyncTime' = Later(nextAutoSyncTime)
           /\ UNCHANGED <<variant, taskId, autoSyncInterval, syncProgress,
                          syncMessage, isSyncingRef, pendingCountRef, jobs,
                          nextJob, posts, polls, fetches, revertTimers,
                          settleTimers, live, startsSinceRender, streak, notified>>
          ELSE IF AutoSyncDue(snap) /\ nextJob < jobBudget
          THEN /\ handleSync
               /\ startsSinceRender' = startsSinceRender + 1
          ELSE /\ nextAutoSyncTime' = Later(nextAutoSyncTime)
           /\ UNCHANGED <<variant, status, taskId, autoSyncInterval,
                          cooldownRemaining, syncProgress, syncMessage,
                          isSyncingRef, pendingCountRef, jobs, nextJob, posts,
                          polls, fetches, revertTimers, settleTimers, live,
                          startsSinceRender, streak, notified>>
    /\ limited' = NoLimit
    /\ polled' = NoPoll
    /\ fetched' = NoFetch
    /\ UNCHANGED <<tvars, pvars, jobBudget, pollBudget>>

\* Variant that treats 429 like any other failure of the request.
RateLimited_AsError(retryAfter) ==
    /\ status' = "ERROR"
    /\ UNCHANGED cooldownRemaining

\* The catch block of handleSync for a 429 answer.
RateLimited(retryAfter) ==
    IF HasCooldown
    THEN /\ cooldownRemaining' =
                IF retryAfter # 0 THEN retryAfter ELSE DefaultRetryAfter
         /\ status' = "COOLDOWN"
    ELSE /\ status' = "IDLE"
         /\ UNCHANGED cooldownRemaining

\* The answer to POST /dashboard/refresh arrives and handleSync continues
\* after its await.  kind: "ok" (the backend created job j and returns its
\* id), "429" (rate limited, retry_after = ra, 0 when absent), "error".
PostResponse(j, kind, ra) ==
    /\ Quiescent
    /\ j \in posts
    /\ posts' = posts \ {j}
    /\ kind # "429" => ra = 0
    /\ IF kind = "ok"
       THEN /\ taskId' = j
            /\ jobs' = [jobs EXCEPT ![j] = "PENDING"]
            /\ UNCHANGED <<status, cooldownRemaining, isSyncingRef, revertTimers,
                           live>>
       ELSE /\ isSyncingRef' = FALSE
            /\ live' = live \ {j}
            /\ IF kind = "429"
               THEN RateLimited(ra) /\ UNCHANGED revertTimers
               ELSE /\ status' = "ERROR"
                    /\ revertTimers' = revertTimers + 1
                    /\ UNCHANGED cooldownRemaining
            /\ UNCHANGED <<taskId, jobs>>
    /\ UNCHANGED <<variant, nextAutoSyncTime, autoSyncInterval, syncProgress,
                   syncMessage, rendered, pendingCountRef, phase, nextJob,
                   polls, fetches, settleTimers, startsSinceRender, streak, notified>>
    /\ limited' = IF kind = "429" THEN ra ELSE NoLimit
    /\ polled' = NoPoll
    /\ fetched' = NoFetch
    /\ UNCHANGED <<tvars, pvars, jobBudget, pollBudget>>

\* The backend moves a job along.
JobAdvance(j, to) ==
    /\ Quiescent
    /\ \/ jobs[j] = "PENDING" /\ to \in {"PROGRESS", "REVOKED"}
       \/ jobs[j] = "PROGRESS" /\ to \in {"SUCCESS", "FAILURE", "REVOKED"}
    /\ jobs' = [jobs EXCEPT ![j] = to]
    /\ UNCHANGED <<variant, status, taskId, nextAutoSyncTime, autoSyncInterval,
                   cooldownRemaining, syncProgress, syncMessage, rendered,
                   isSyncingRef, pendingCountRef, phase, nextJob, posts, polls,
                   fetches, revertTimers, settleTimers, live,
                   startsSinceRender, streak, notified>>
    /\ limited' = NoLimit
    /\ polled' = NoPoll
    /\ fetched' = NoFetch
    /\ UNCHANGED <<tvars, pvars, jobBudget, pollBudget>>

\* Whether the polling effect has its interval running: its guard is
\* `if (status !== "SYNCING" || !taskId) return`.
PollingActive(snap) == snap.status = "SYNCING" /\ snap.taskId # NoTask

\* The 800 ms interval fires: GET /dashboard/status/{taskId} leaves.
PollTick ==
    /\ Quiescent
    /\ PollingActive(rendered)
    /\ Len(polls) < pollBudget
    /\ polls' = Append(polls, [task |-> rendered.taskId,
                               interval |-> rendered.interval])
    /\ UNCHANGED <<variant, status, taskId, nextAutoSyncTime, autoSyncInterval,
                   cooldownRemaining, syncProgress, syncMessage, rendered,
                   isSyncingRef, pendingCountRef, phase, jobs, nextJob, posts,
                   fetches, revertTimers, settleTimers, live,
                   startsSinceRender, streak, notified>>
    /\ limited' = NoLimit
    /\ polled' = NoPoll
    /\ fetched' = NoFetch
    /\ UNCHANGED <<tvars, pvars, jobBudget, pollBudget>>

RemoveAt(seq, i) == SubSeq(seq, 1, i - 1) \o SubSeq(seq, i + 1, Len(seq))

\* "Update Progress": data.info carries current/total/message while the job
\* reports progress.
ProgressUpdate(st) ==
    IF st = "PROGRESS"
    THEN syncProgress' = 50 /\ syncMessage' = "server"
    ELSE UNCHANGED <<syncProgress, syncMessage>>

\* The stuck-job test of the no-cooldown variant, on the incremented counter.
StuckLimitReached(count) == count > PendingLimit

\* nextAutoSyncTime set in the SUCCESS branch, for the interval captured by
\* the polling effect (0 = null: left alone).
NextAfterSuccess(captured) ==
    IF captured = 0 THEN nextAutoSyncTime
    ELSE IF HasCooldown THEN IntervalSecs
    ELSE EpochAligned(phase)

\* Whether the poll handler treats a status as a failed job.
IsFailureStatus(v, st) ==
    IF v = "cooldown" THEN st = "FAILURE" ELSE st \in {"FAILURE", "REVOKED"}

Terminal == {"SUCCESS", "FAILURE", "REVOKED"}

\* A poll is answered with the job's current status and the callback of the
\* polling interval continues after its await.
PollAnswer(i) ==
    /\ Quiescent
    /\ i \in 1..Len(polls)
    /\ LET p  == polls[i]
           st == jobs[p.task]
           count == pendingCountRef + 1
           timeout == ~HasCooldown /\ st = "PENDING" /\ StuckLimitReached(count)
       IN
       /\ polls' = RemoveAt(polls, i)
       /\ live' = IF st \in Terminal \/ timeout THEN live \ {p.task} ELSE live
       /\ pendingCountRef' =
             IF HasCooldown THEN pendingCountRef
             ELSE IF st = "PENDING" THEN count ELSE 0
       /\ streak' =
             IF HasCooldown \/ p.task # taskId THEN streak
             ELSE IF st = "PENDING" THEN streak + 1 ELSE 0
       /\ IF timeout
          THEN /\ status' = "ERROR"
               /\ taskId' = NoTask
               /\ syncMessage' = "Sync Timeout"
               /\ isSyncingRef' = FALSE
               /\ revertTimers' = revertTimers + 1
               /\ UNCHANGED <<syncProgress, nextAutoSyncTime, settleTimers,
                              notified>>
          ELSE IF st = "SUCCESS"
          THEN /\ status' = "SUCCESS"
               /\ syncProgress' = 100
               /\ nextAutoSyncTime' = NextAfterSuccess(p.interval)
               /\ notified' = [notified EXCEPT ![p.task] = IF @ < 2 THEN @ + 1 ELSE @]
               /\ isSyncingRef' = FALSE
               /\ settleTimers' = settleTimers + 1
               /\ UNCHANGED <<taskId, syncMessage, revertTimers>>
          ELSE IF IsFailureStatus(variant, st)
          THEN /\ status' = "ERROR"
               /\ taskId' = NoTask
               /\ syncMessage' = IF HasCooldown THEN syncMessage ELSE "Sync Failed"
               /\ isSyncingRef' = FALSE
               /\ revertTimers' = revertTimers + 1
               /\ UNCHANGED <<syncProgress, nextAutoSyncTime, settleTimers,
                              notified>>
          ELSE /\ IF ~HasCooldown /\ st = "PENDING"
                  THEN syncMessage' = "Queued..." /\ UNCHANGED syncProgress
                  ELSE ProgressUpdate(st)
               /\ UNCHANGED <<status, taskId, isSyncingRef, revertTimers,
                              nextAutoSyncTime, settleTimers, notified>>
    /\ UNCHANGED <<variant, autoSyncInterval, cooldownRemaining, rendered,
                   phase, jobs, nextJob, posts, fetches, startsSinceRender>>
    /\ limited' = NoLimit
    /\ polled' = [task |-> polls[i].task, st |-> jobs[polls[i].task]]
    /\ fetched' = NoFetch
    /\ UNCHANGED <<tvars, pvars, jobBudget, pollBudget>>

\* Variant that treats a failed poll as a failed job.
PollError_AsFailure(i) ==
    /\ Quiescent
    /\ i \in 1..Len(polls)
    /\ polls' = RemoveAt(polls, i)
    /\ status' = "ERROR"
    /\ taskId' = NoTask
    /\ UNCHANGED <<variant, nextAutoSyncTime, autoSyncInterval,
                   cooldownRemaining, syncProgress, syncMessage, rendered,
                   isSyncingRef, pendingCountRef, phase, jobs, nextJob, posts,
                   fetches, revertTimers, settleTimers, live,
                   startsSinceRender, streak, notified>>
    /\ limited' = NoLimit
    /\ polled' = [task |-> polls[i].task, st |-> "error"]
    /\ fetched' = NoFetch
    /\ UNCHANGED <<tvars, pvars, jobBudget, pollBudget>>

\* A poll fails in transport: the catch block only logs.
PollError(i) ==
    /\ Quiescent
    /\ i \in 1..Len(polls)
    /\ polls' = RemoveAt(polls, i)
    /\ UNCHANGED <<variant, status, taskId, nextAutoSyncTime, autoSyncInterval,
                   cooldownRemaining, syncProgress, syncMessage, rendered,
                   isSyncingRef, pendingCountRef, phase, jobs, nextJob, posts,
                   fetches, revertTimers, settleTimers, live,
                   startsSinceRender, streak, notified>>
    /\ limited' = NoLimit
    /\ polled' = [task |-> polls[i].task, st |-> "error"]
    /\ fetched' = NoFetch
    /\ UNCHANGED <<tvars, pvars, jobBudget, pollBudget>>

\* setTimeout(() => setStatus("IDLE"), 3000) fires.
RevertFire ==
    /\ Quiescent
    /\ revertTimers > 0
    /\ revertTimers' = revertTimers - 1
    /\ status' = "IDLE"
    /\ UNCHANGED <<variant, taskId, nextAutoSyncTime, autoSyncInterval,
                   cooldownRemaining, syncProgress, syncMessage, rendered,
                   isSyncingRef, pendingCountRef, phase, jobs, nextJob, posts,
                   polls, fetches, settleTimers, live, startsSinceRender,
                   streak, notified>>
    /\ limited' = NoLimit
    /\ polled' = NoPoll
    /\ fetched' = NoFetch
    /\ UNCHANGED <<tvars, pvars, jobBudget, pollBudget>>

\* The post-success setTimeout(async () => {...}, 1000) fires and calls
\* fetchStatus(): GET /dashboard/sync-status leaves.
SettleFire ==
    /\ Quiescent
    /\ settleTimers > 0
    /\ settleTimers' = settleTimers - 1
    /\ fetches' = Append(fetches, [origin |-> "settle", stage |-> "status",
                                   task |-> NoTask, rem |-> 0])
    /\ UNCHANGED <<variant, status, taskId, nextAutoSyncTime, autoSyncInterval,
                   cooldownRemaining, syncProgress, syncMessage, rendered,
                   isSyncingRef, pendingCountRef, phase, jobs, nextJob, posts,
                   polls, revertTimers, live, startsSinceRender, streak, notified>>
    /\ limited' = NoLimit
    /\ polled' = NoPoll
    /\ fetched' = NoFetch
    /\ UNCHANGED <<tvars, pvars, jobBudget, pollBudget>>

\* Jobs the backend reports as active_task_id.
ActiveJobs == {j \in JobIds : jobs[j] \in {"PENDING", "PROGRESS"}}

\* nextAutoSyncTime set by fetchStatus from {auto_sync_interval, last_sync_time}:
\*   no-cooldown variant: the next epoch-aligned boundary, whenever the
\*                        interval is given;
\*   cooldown variant:    last_sync_time + interval (`left` seconds from now),
\*                        when both are given.
NextFromStatus(ivl, hasLast, left) ==
    IF ivl = 0 THEN nextAutoSyncTime
    ELSE IF ~HasCooldown THEN EpochAligned(phase)
    ELSE IF hasLast THEN left
    ELSE nextAutoSyncTime

\* What the caller of fetchStatus does when it returns `rem`: nothing on
\* mount; after the post-success delay, setTaskId(null) and settle.
\* `st` and `tk` are status and taskId as fetchStatus left them.
AfterFetch(origin, rem, st, tk) ==
    IF origin = "mount"
    THEN status' = st /\ taskId' = tk
    ELSE /\ taskId' = NoTask
         /\ status' = IF HasCooldown /\ rem > 0 THEN "COOLDOWN" ELSE "IDLE"

\* GET /dashboard/sync-status is answered and fetchStatus continues.
\*   active   active_task_id (NoTask when absent)
\*   ivl      auto_sync_interval (0 when absent)
\*   hasLast  last_sync_time present;  left = seconds until last + interval
\*   rem      remaining_cooldown (0 when absent)
StatusResponse(i, active, ivl, hasLast, left, rem) ==
    /\ Quiescent
    /\ i \in 1..Len(fetches)
    /\ fetches[i].stage = "status"
    /\ active \in ActiveJobs \cup {NoTask}
    /\ ~hasLast => left = 0
    /\ autoSyncInterval' = IF ivl # 0 THEN ivl ELSE autoSyncInterval
    /\ nextAutoSyncTime' = NextFromStatus(ivl, hasLast, left)
    /\ IF active # NoTask
       THEN \* setTaskId, setStatus("SYNCING"), then await the task's status
            /\ taskId' = active
            /\ status' = "SYNCING"
            /\ isSyncingRef' = TRUE
            /\ streak' = IF active = taskId THEN streak ELSE 0
            /\ fetches' = [fetches EXCEPT ![i] =
                             [@ EXCEPT !.stage = "task", !.task = active,
                                       !.rem = rem]]
            /\ UNCHANGED cooldownRemaining
       ELSE /\ isSyncingRef' = FALSE
            /\ fetches' = RemoveAt(fetches, i)
            /\ UNCHANGED streak
            /\ IF HasCooldown
               THEN IF rem > 0
                    THEN /\ cooldownRemaining' = rem
                         /\ AfterFetch(fetches[i].origin, rem, "COOLDOWN", taskId)
                    ELSE /\ UNCHANGED cooldownRemaining
                         /\ AfterFetch(fetches[i].origin, rem, status, taskId)
               ELSE /\ UNCHANGED cooldownRemaining
                    /\ AfterFetch(fetches[i].origin, rem, "IDLE", taskId)
    /\ UNCHANGED <<variant, syncProgress, syncMessage, rendered,
                   pendingCountRef, phase, jobs, nextJob, posts, polls,
                   revertTimers, settleTimers, live, startsSinceRender, notified>>
    /\ limited' = NoLimit
    /\ polled' = NoPoll
    /\ fetched' = [origin |-> fetches[i].origin, active |-> active, rem |-> rem]
    /\ UNCHANGED <<tvars, pvars, jobBudget, pollBudget>>

\* GET /dashboard/sync-status fails: fetchStatus logs and returns (0).
StatusError(i) ==
    /\ Quiescent
    /\ i \in 1..Len(fetches)
    /\ fetches[i].stage = "status"
    /\ fetches' = RemoveAt(fetches, i)
    /\ AfterFetch(fetches[i].origin, 0, status, taskId)
    /\ UNCHANGED <<variant, nextAutoSyncTime, autoSyncInterval,
                   cooldownRemaining, syncProgress, syncMessage, rendered,
                   isSyncingRef, pendingCountRef, phase, jobs, nextJob, posts,
                   polls, revertTimers, settleTimers, live, startsSinceRender,
                   streak, notified>>
    /\ limited' = NoLimit
    /\ polled' = NoPoll
    /\ fetched' = NoFetch
    /\ UNCHANGED <<tvars, pvars, jobBudget, pollBudget>>

\* The immediate GET /dashboard/status/{active_task_id} of fetchStatus is
\* answered (ok) or fails (~ok); progress and message are restored from it,
\* then fetchStatus returns remaining_cooldown.
RestoreResponse(i, ok) ==
    /\ Quiescent
    /\ i \in 1..Len(fetches)
    /\ fetches[i].stage = "task"
    /\ fetches' = RemoveAt(fetches, i)
    /\ IF ok THEN ProgressUpdate(jobs[fetches[i].task])
       ELSE UNCHANGED <<syncProgress, syncMessage>>
    /\ AfterFetch(fetches[i].origin, fetches[i].rem, status, taskId)
    /\ UNCHANGED <<variant, nextAutoSyncTime, autoSyncInterval,
                   cooldownRemaining, rendered, isSyncingRef, pendingCountRef,
                   phase, jobs, nextJob, posts, polls, revertTimers,
                   settleTimers, live, startsSinceRender, streak, notified>>
    /\ limited' = NoLimit
    /\ polled' = NoPoll
    /\ fetched' = NoFetch
    /\ UNCHANGED <<tvars, pvars, jobBudget, pollBudget>>

\* Every step but the backend's own progress and what follows a success:
\* the steps left when the backend never moves a job out of PENDING.
StuckNext ==
    \/ Render
    \/ Click
    \/ Tick
    \/ \E j \in JobIds, kind \in {"ok", "429", "error"}, ra \in CooldownValues :
          PostResponse(j, kind, ra)
    \/ PollTick
    \/ \E i \in 1..Len(polls) : PollAnswer(i)
    \/ \E i \in 1..Len(polls) : PollError(i)
    \/ RevertFire
    \/ \E i \in 1..Len(fetches), active \in JobIds \cup {NoTask},
          ivl \in {0, IntervalSecs}, hasLast \in BOOLEAN,
          left \in 0..IntervalSecs, rem \in CooldownValues :
          StatusResponse(i, active, ivl, hasLast, left, rem)
    \/ \E i \in 1..Len(fetches) : StatusError(i)
    \/ \E i \in 1..Len(fetches), ok \in BOOLEAN : RestoreResponse(i, ok)

SNext ==
    \/ StuckNext
    \/ \E j \in JobIds, to \in {"PROGRESS", "SUCCESS", "FAILURE", "REVOKED"} :
          JobAdvance(j, to)
    \/ SettleFire

\* The part a specification does not exercise stays as constructed.
TQuiet ==
    /\ token = NoToken /\ refreshToken = NoToken /\ defaultsAuth = NoToken
    /\ issued = 0 /\ newestSeen = 0 /\ navigations = 0 /\ navPending = FALSE
    /\ reqs = [r \in ReqIds |-> NewReq]

SQuiet ==
    /\ variant = "cooldown" /\ status = "IDLE" /\ taskId = NoTask
    /\ nextAutoSyncTime = NoTime /\ autoSyncInterval = 0 /\ cooldownRemaining = 0
    /\ syncProgress = 0 /\ syncMessage = "Initializing..."
    /\ rendered = Snapshot /\ isSyncingRef = FALSE /\ pendingCountRef = 0
    /\ phase = 0 /\ jobs = [j \in JobIds |-> "none"] /\ nextJob = 0
    /\ posts = {} /\ polls = <<>> /\ fetches = <<>>
    /\ revertTimers = 0 /\ settleTimers = 0 /\ live = {}
    /\ startsSinceRender = 0 /\ streak = 0
    /\ notified = [j \in JobIds |-> 0]
    /\ jobBudget = 0
    /\ pollBudget = 0
    /\ limited = NoLimit
    /\ polled = NoPoll
    /\ fetched = NoFetch

PQuiet == schedule = <<>> /\ holdings = <<>> /\ view = <<>> /\ counted = <<>>

vars == <<tvars, svars, pvars>>

\* The transport alone, no widget mounted.
TransportInit == TInit /\ SQuiet /\ PQuiet

TransportSpec == TransportInit /\ [][TNext]_vars

\* The widget alone, on a transport that answers its calls.
SyncInit == SInit /\ TQuiet /\ PQuiet /\ jobBudget = MaxJobs /\ pollBudget = MaxPolls

\* The widget from its mount to the end of the one job of the run: the job
\* the mount finds running, or else the first job the widget starts.
FirstJobInit == SInit /\ TQuiet /\ PQuiet /\ jobBudget = 1 /\ pollBudget = MaxPolls

FirstJobSpec == FirstJobInit /\ [][SNext]_vars

\* The one-job run on a slow connection: a poll may still be unanswered when
\* the 800 ms interval sends the next one.
OverlapInit ==
    SInit /\ TQuiet /\ PQuiet /\ jobBudget = 1 /\ pollBudget = OverlapPolls

OverlapSpec == OverlapInit /\ [][SNext]_vars

SyncSpec == SyncInit /\ [][SNext]_vars

\* A backend that accepts jobs but never moves one out of PENDING.  Timers
\* keep firing, React keeps committing, and requests are eventually answered
\* (polls may fail in transport, but not all of them for ever); nothing is
\* assumed about the user.
StuckFairness ==
    /\ WF_vars(Render)
    /\ WF_vars(Tick)
    /\ WF_vars(PollTick)
    /\ WF_vars(RevertFire)
    /\ SF_vars(\E i \in 1..Len(polls) : PollAnswer(i))
    /\ WF_vars(\E j \in JobIds : PostResponse(j, "ok", 0))
    /\ WF_vars(\E i \in 1..Len(fetches) :
                   \/ StatusError(i)
                   \/ \E active \in JobIds \cup {NoTask},
                         ivl \in {0, IntervalSecs}, hasLast \in BOOLEAN,
                         left \in 0..IntervalSecs, rem \in CooldownValues :
                         StatusResponse(i, active, ivl, hasLast, left, rem))
    /\ WF_vars(\E i \in 1..Len(fetches) : RestoreResponse(i, TRUE))

StuckBackendSpec ==
    SyncInit /\ [][StuckNext]_vars /\ StuckFairness

\* The one-job run with a backend that moves jobs along, under the same
\* scheduling: timers fire (also the post-success delay), React commits,
\* requests are answered.
FirstJobFairSpec ==
    FirstJobInit /\ [][SNext]_vars /\ StuckFairness /\ WF_vars(SettleFire)

(***************************************************************************)
(*                       PART III : PURE FUNCTIONS                         *)
(*                                                                         *)
(* The next-auto-sync computation of the two SyncWidget variants, in       *)
(* milliseconds as the code computes it, and aggregateBySymbol of the      *)
(* portfolio page.  Each is applied once to arguments drawn by Init.       *)
(***************************************************************************)
\* longest auto_sync_interval tried, in seconds
MaxIntervalLen == 2
\* latest reference time tried, in milliseconds since the epoch
MaxClock == 4000

\* `auto_sync_interval * 1000`
MsPerSecond == 1000
\* the margin in `now.getTime() + 1000`
AlignMargin == 1000

\* Math.ceil(a / b) for a >= 0, b > 0
CeilDiv(a, b) == (a + b - 1) \div b

\* No-cooldown variant (fetchStatus, the cached-state effect and the SUCCESS
\* branch): Math.ceil((now + 1000) / msPerInterval) * msPerInterval.
NextEpochAligned(now, len) ==
    CeilDiv(now + AlignMargin, len * MsPerSecond) * (len * MsPerSecond)

\* Cooldown variant: last.getTime() + auto_sync_interval * 1000 (fetchStatus,
\* the cached-state effect), Date.now() + autoSyncInterval * 1000 (SUCCESS).
NextAfterReference(ref, len) == ref + len * MsPerSecond

\* The computation of variant v for interval len (s) and reference time ref (ms).
NextAutoSync(v, len, ref) ==
    IF v = "nocooldown" THEN NextEpochAligned(ref, len)
    ELSE NextAfterReference(ref, len)

ScheduleInit ==
    /\ \E v \in Variants, len \in 1..MaxIntervalLen, ref \in 0..MaxClock :
          schedule = [v |-> v, len |-> len, ref |-> ref, done |-> FALSE, next |-> 0]
    /\ holdings = <<>> /\ view = <<>> /\ counted = <<>>
    /\ TQuiet /\ SQuiet

\* The widget computes the next auto-sync instant.
ComputeNext ==
    /\ ~schedule.done
    /\ schedule' = [schedule EXCEPT
                       !.done = TRUE,
                       !.next = NextAutoSync(schedule.v, schedule.len, schedule.ref)]
    /\ UNCHANGED <<holdings, view, counted, tvars, svars>>

ScheduleSpec == ScheduleInit /\ [][ComputeNext]_vars

(***************************************************************************)
(* aggregateBySymbol.  JavaScript numbers are modelled as exact rationals  *)
(* <<numerator, denominator>> in lowest terms with a positive denominator  *)
(* (no floating-point rounding); value_usd and balance are whole numbers.  *)
(***************************************************************************)
\* longest list of holdings tried
MaxRows == 3

RECURSIVE GCD(_, _)
GCD(a, b) == IF b = 0 THEN a ELSE GCD(b, a % b)

Abs(n) == IF n < 0 THEN -n ELSE n

\* n / d (d # 0) in lowest terms
Rat(n, d) ==
    LET g == GCD(Abs(n), Abs(d))
        sgn == IF d < 0 THEN -1 ELSE 1
    IN  <<sgn * (n \div g), sgn * (d \div g)>>

\* change_24h absent (undefined or null)
Missing == <<0, 0>>
Zero == <<0, 1>>

\* `x || 0` for a number field that may be absent
OrZero(x) == IF x = Missing \/ x[1] = 0 THEN Zero ELSE x

\* k * x for a whole number k
Scale(k, x) == Rat(k * x[1], x[2])

RatAdd(x, y) == Rat(x[1] * y[2] + y[1] * x[2], x[2] * y[2])

\* x / k for a whole number k # 0
RatOver(x, k) == Rat(x[1], x[2] * k)

\* item.icon_url absent
NoIcon == "none"

\* The holdings tried: per symbol, a row of 100 USD at +10 %, a row of 300 USD
\* at -2 % carrying an icon, and two empty positions (balance 0) that differ
\* in the quoted price, one of them without change_24h.  No negative
\* value_usd or balance.
Symbols == {"BTC", "btc"}

Positions ==
    { [value_usd |-> 100, balance |-> 1, change_24h |-> <<10, 1>>,
       price_usd |-> <<100, 1>>, icon_url |-> NoIcon,
       integration_name |-> "Binance", provider_id |-> "binance"],
      [value_usd |-> 300, balance |-> 3, change_24h |-> <<-2, 1>>,
       price_usd |-> <<100, 1>>, icon_url |-> "icon",
       integration_name |-> "Kraken", provider_id |-> "kraken"],
      [value_usd |-> 0, balance |-> 0, change_24h |-> Missing,
       price_usd |-> <<5, 1>>, icon_url |-> NoIcon,
       integration_name |-> "Binance", provider_id |-> "binance"],
      [value_usd |-> 0, balance |-> 0, change_24h |-> <<10, 1>>,
       price_usd |-> <<7, 1>>, icon_url |-> NoIcon,
       integration_name |-> "Kraken", provider_id |-> "kraken"] }

WithSymbol(sym, pos) ==
    [symbol |-> sym, value_usd |-> pos.value_usd, balance |-> pos.balance,
     change_24h |-> pos.change_24h, price_usd |-> pos.price_usd,
     icon_url |-> pos.icon_url, integration_name |-> pos.integration_name,
     provider_id |-> pos.provider_id]

SampleRows == {WithSymbol(sym, pos) : sym \in Symbols, pos \in Positions}

\* Position of the row of `sym` in the map (insertion order), 0 when absent:
\* map.has(item.symbol) / map.get(item.symbol).
IndexOf(map, sym) ==
    IF \E i \in 1..Len(map) : map[i].symbol = sym
    THEN CHOOSE i \in 1..Len(map) : map[i].symbol = sym
    ELSE 0

\* Variant that copies the first row unchanged.
Seed_KeepsIntegration(item) == item

\* First row of a symbol: { ...item, integration_name: "Multiple",
\* provider_id: "multiple" }
Seed(item) ==
    [item EXCEPT !.integration_name = "Multiple", !.provider_id = "multiple"]

\* Variant that averages the two changes without weights.
NewChange_Unweighted(existing, item, totalVal) ==
    IF totalVal > 0
    THEN RatOver(RatAdd(OrZero(existing.change_24h), OrZero(item.change_24h)), 2)
    ELSE Zero

\* (totalVal > 0) ? (existingWeight + itemWeight) / totalVal : 0
NewChange(existing, item, totalVal) ==
    LET existingWeight == Scale(existing.value_usd, OrZero(existing.change_24h))
        itemWeight == Scale(item.value_usd, OrZero(item.change_24h))
    IN  IF totalVal > 0
        THEN RatOver(RatAdd(existingWeight, itemWeight), totalVal)
        ELSE Zero

\* The else branch of the loop: fold `item` into the row of its symbol.
Merge(existing, item) ==
    LET totalVal == existing.value_usd + item.value_usd
        totalBal == existing.balance + item.balance
    IN  [existing EXCEPT
            !.value_usd = totalVal,
            !.balance = totalBal,
            !.change_24h = NewChange(existing, item, totalVal),
            !.price_usd = IF totalBal > 0 THEN Rat(totalVal, totalBal)
                          ELSE existing.price_usd,
            !.icon_url = IF existing.icon_url = NoIcon /\ item.icon_url # NoIcon
                         THEN item.icon_url ELSE existing.icon_url]

\* Variant without the else: the first row of a symbol is also accumulated.
FoldItem_NoElse(map, item) ==
    LET i == IndexOf(map, item.symbol)
    IN  IF i = 0 THEN Append(map, Merge(Seed(item), item))
        ELSE [map EXCEPT ![i] = Merge(map[i], item)]

\* One iteration of `for (const item of items)`.
FoldItem(map, item) ==
    LET i == IndexOf(map, item.symbol)
    IN  IF i = 0 THEN Append(map, Seed(item))
        ELSE [map EXCEPT ![i] = Merge(map[i], item)]

RECURSIVE FoldFrom(_, _, _)
FoldFrom(items, k, map) ==
    IF k > Len(items) THEN map
    ELSE FoldFrom(items, k + 1, FoldItem(map, items[k]))

\* Array.from(map.values()) after the loop
aggregateBySymbol(items) == FoldFrom(items, 1, <<>>)

\* Variant that stores the input row itself in the map.
Alias_ByReference(item, k) == k

\* The input row that the object stored for a new symbol is (0: none).
\* `{ ...item, ... }` is an object literal: a new object, no input row.
Alias(item, k) == 0

\* The same loop with the objects told apart: `alias[i]` is the index of the
\* input row that map row i is (0: an object of its own).  An assignment
\* to `existing` is an assignment to that input row as well.
HeapStep(h, k) ==
    LET item == h.items[k]
        i == IndexOf(h.map, item.symbol)
        map2 == FoldItem(h.map, item)
    IN  IF i = 0
        THEN [items |-> h.items, map |-> map2,
              alias |-> Append(h.alias, Alias(item, k))]
        ELSE [items |-> IF h.alias[i] = 0 THEN h.items
                        ELSE [h.items EXCEPT ![h.alias[i]] = map2[i]],
              map |-> map2, alias |-> h.alias]

RECURSIVE HeapFrom(_, _)
HeapFrom(h, k) ==
    IF k > Len(h.items) THEN h ELSE HeapFrom(HeapStep(h, k), k + 1)

\* The rows of `items` after aggregateBySymbol(items) has returned.
ItemsAfter(items) ==
    HeapFrom([items |-> items, map |-> <<>>, alias |-> <<>>], 1).items

\* What aggregateBySymbol(items) returns, read from the same run.
ReturnedBy(items) ==
    HeapFrom([items |-> items, map |-> <<>>, alias |-> <<>>], 1).map

AggregateInit ==
    /\ \E n \in 0..MaxRows : holdings \in [1..n -> SampleRows]
    /\ view = <<>>
    /\ counted = <<>>
    /\ schedule = <<>>
    /\ TQuiet /\ SQuiet

\* The page aggregates the raw list (filteredData, aggregated view).
Aggregate ==
    /\ view = <<>>
    /\ view' = <<ReturnedBy(holdings)>>
    /\ holdings' = ItemsAfter(holdings)
    /\ UNCHANGED <<counted, schedule, tvars, svars>>

\* The aggregated list is aggregated again.
Reaggregate ==
    /\ Len(view) = 1
    /\ view' = Append(view, aggregateBySymbol(view[1]))
    /\ UNCHANGED <<holdings, counted, schedule, tvars, svars>>

\* The same render pass, or a later one, aggregates the raw list once more
\* for the asset count.
Recount ==
    /\ view # <<>>
    /\ counted = <<>>
    /\ counted' = <<ReturnedBy(holdings)>>
    /\ holdings' = ItemsAfter(holdings)
    /\ UNCHANGED <<view, schedule, tvars, svars>>

AggregateNext == Aggregate \/ Reaggregate \/ Recount

AggregateSpec == AggregateInit /\ [][AggregateNext]_vars

(***************************************************************************)
(*                  CLAIMS ABOUT THE AUTHENTICATED TRANSPORT               *)
(***************************************************************************)

\* C3  Refresh-retry-once.  A call to a non-auth endpoint that received 401
\* and then 200 (so its refresh succeeded and its replay was answered 200)
\* caused exactly one refresh call and exactly one replay, the replay carried
\* the access token of the refresh answer, and the caller's promise is
\* resolved with the 200 (it was settled once, never with the 401).
C3_RefreshRetryOnce ==
    \A r \in ReqIds :
        (reqs[r].url = "api" /\ reqs[r].saw = <<401, 200>>) =>
            /\ reqs[r].refreshCalls = 1
            /\ reqs[r].replays = 1
            /\ reqs[r].sends = 2
            /\ reqs[r].pay # NoToken
            /\ reqs[r].hdr = reqs[r].pay
            /\ reqs[r].outcome = "ok200"
            /\ reqs[r].navs = 0

C3_Witness ==
    \E r \in ReqIds : reqs[r].url = "api" /\ reqs[r].saw = <<401, 200>>

\* C4  At most one refresh-and-retry per original request.  Whatever answers
\* a call and its replay receive, at most one refresh call is made for it, it
\* is replayed at most once (so it is sent at most twice), and a 401 on the
\* replay is handed to the caller with no further refresh, no token clearing
\* by that answer and no navigation.
C4_AtMostOneRefreshPerRequest ==
    \A r \in ReqIds :
        /\ reqs[r].refreshCalls <= 1
        /\ reqs[r].replays <= 1
        /\ reqs[r].sends <= 2
        /\ reqs[r].replays <= reqs[r].refreshCalls
        /\ (reqs[r].saw = <<401, 401>> =>
                /\ reqs[r].st = "done"
                /\ reqs[r].outcome = "rejOrig"
                /\ reqs[r].refreshCalls = 1
                /\ reqs[r].navs = 0)

C4_Witness ==
    \E r \in ReqIds : reqs[r].saw = <<401, 401>> /\ reqs[r].outcome = "rejOrig"

\* The two terminal cases of C5, as steps: a first 401 for a non-auth call
\* while no refresh token is stored, or the failed answer of its refresh call
\* being handled.
NoRefreshTokenStep(r) ==
    /\ reqs[r].url = "api" /\ reqs[r].st = "inflight" /\ ~reqs[r].retry
    /\ refreshToken = NoToken
    /\ reqs'[r].saw = Append(reqs[r].saw, 401)

RefreshFailedStep(r) ==
    /\ reqs[r].st = "refreshResp" /\ reqs[r].pay = NoToken
    /\ reqs'[r].st = "done" /\ reqs'[r].outcome # "aborted"

\* C5  Refresh-failure redirect.  When a non-auth call gets 401 and either no
\* refresh token is stored or its refresh call fails, then right after the
\* handler both tokens are absent from the store, exactly one navigation to
\* /login has been forced by it, the call has not been replayed and its
\* promise is rejected; and a call that ended this way never has a replay and
\* has exactly one navigation.
C5_RefreshFailureRedirect ==
    /\ [][\A r \in ReqIds :
            (NoRefreshTokenStep(r) \/ RefreshFailedStep(r)) =>
                /\ token' = NoToken
                /\ refreshToken' = NoToken
                /\ navigations' = navigations + 1
                /\ navPending'
                /\ reqs'[r].navs = 1
                /\ reqs'[r].replays = 0
                /\ reqs'[r].st = "done"
                /\ reqs'[r].outcome \in {"rejOrig", "rejRefresh"}]_vars
    /\ [](\A r \in ReqIds :
            reqs[r].outcome = "rejRefresh" => reqs[r].navs = 1 /\ reqs[r].replays = 0)

C5_Witness ==
    /\ \E r \in ReqIds : reqs[r].outcome = "rejRefresh" /\ reqs[r].navs = 1
    /\ \E r \in ReqIds :
          /\ reqs[r].outcome = "rejOrig" /\ reqs[r].saw = <<401>>
          /\ reqs[r].url = "api" /\ reqs[r].navs = 1
    /\ token = NoToken /\ refreshToken = NoToken

\* The refresh calls that are outstanding: sent, and their answer not yet
\* handled by the client.
RefreshesOutstanding ==
    {r \in ReqIds : reqs[r].st \in {"refreshing", "refreshResp"}}

\* C8  Single refresh in flight: at most one POST /auth/refresh is
\* outstanding at a time.  (Violated: every call that receives a 401 starts
\* its own refresh.)
C8_SingleRefreshInFlight == Cardinality(RefreshesOutstanding) <= 1

\* C9  Freshest token stored: an access token present in the store is the
\* newest (last issued) among the token pairs the client has received.
\* (Violated: answers handled out of issue order leave the older one stored.)
C9_FreshestTokenStored == token # NoToken => token = newestSeen

\* C10  Bearer attachment: every request sent carries the access token that is
\* in the store at send time, and no Authorization header when none is stored.
\* (Violated: the default header set by a refresh outlives the stored token.)
C10_BearerAttachment ==
    \A r \in ReqIds : reqs[r].sends > 0 => reqs[r].hdr = reqs[r].tokAtSend

\* C20: when two calls each ran their own refresh with the same stored
\* refresh token and one of them succeeded and stored new tokens, the failure
\* of the other refresh leaves those tokens in the store and forces no
\* navigation to /login.
C20_FailedRefreshKeepsFreshSession ==
    [][\A r, other \in ReqIds :
          (/\ r # other
           /\ RefreshFailedStep(r)
           /\ reqs[r].rt # NoToken /\ reqs[other].rt = reqs[r].rt
           /\ reqs[other].replays > 0
           /\ token # NoToken /\ token = reqs[other].pay)
          => /\ token' = token
             /\ refreshToken' = refreshToken
             /\ navigations' = navigations]_vars

\* C21: in both terminal cases (no refresh token stored; the refresh call
\* fails) the caller's promise is rejected with the original 401 error of the
\* original request.
C21_TerminalRejectsWithOriginalError ==
    \A r \in ReqIds :
        (reqs[r].st = "done" /\ reqs[r].navs > 0) => reqs[r].outcome = "rejOrig"

\* C27: a 401 answer to a login or register call, when its handler runs (the
\* page was not reloaded meanwhile), starts no refresh, leaves
\* the stored tokens alone, forces no navigation and is rejected to the
\* caller as it came.
C27_AuthEndpointsExempt ==
    [][\A r \in ReqIds :
          (/\ reqs[r].st = "authResp" /\ reqs[r].pay = NoToken
           /\ reqs'[r] # reqs[r] /\ reqs'[r].outcome # "aborted")
          => /\ reqs'[r].st = "done"
             /\ reqs'[r].outcome = "rejOrig"
             /\ reqs'[r].saw = <<401>>
             /\ reqs'[r].refreshCalls = 0
             /\ reqs'[r].navs = 0
             /\ <<token, refreshToken, defaultsAuth, navigations, navPending>>'
                   = <<token, refreshToken, defaultsAuth, navigations, navPending>>]_vars

C27_Witness ==
    /\ \E r \in ReqIds :
          /\ reqs[r].url = "auth" /\ reqs[r].st = "done"
          /\ reqs[r].outcome = "rejOrig" /\ reqs[r].saw = <<401>>
    /\ \E r \in ReqIds : reqs[r].url = "auth" /\ reqs[r].outcome = "ok200"
    /\ token # NoToken /\ refreshToken # NoToken
    /\ navigations = 0

(***************************************************************************)
(*                     CLAIMS ABOUT THE SYNC ORCHESTRATOR                  *)
(***************************************************************************)

\* C1 (single active job): once this widget has sent POST /dashboard/refresh,
\* it sends no second one until it has seen that job end (a terminal status,
\* a failed start, or the stuck-PENDING timeout): at most one started job is
\* live at any time.
C1_SingleActiveJob == Cardinality(live) <= 1

\* C2 (click/timer race): when the auto-sync timer and a click both call
\* handleSync before React commits the first call's status change, only the
\* first sends POST /dashboard/refresh: no job-start request is sent while
\* an earlier one of the same render is uncommitted.
C2_ClickTimerRace == [][nextJob' = nextJob + 1 => startsSinceRender = 0]_vars

\* The poll handler abandons the tracked job as stuck.
TimeoutStep ==
    /\ status = "SYNCING" /\ taskId # NoTask
    /\ status' = "ERROR" /\ taskId' = NoTask
    /\ syncMessage' = "Sync Timeout"
    /\ streak' = streak + 1

\* C6 (stuck-job threshold): with a backend that answers every poll with
\* PENDING, the tracked job is abandoned (ERROR, "Sync Timeout", job id
\* cleared) when its run of consecutive PENDING answers reaches the
\* threshold of 12 -- read generously: on the 12th answer or on the one that
\* follows it -- never earlier and never later.
C6_StuckJobTimeoutThreshold ==
    [][TimeoutStep => streak' \in {PendingLimit, PendingLimit + 1}]_vars

\* C7 (no indefinite polling): in either variant, with a backend that
\* answers every poll with PENDING, a widget that polls a job eventually
\* stops polling and is IDLE again.
C7_NoIndefinitePolling ==
    PollingActive(rendered) ~> (status = "IDLE" /\ ~PollingActive(rendered))

C18_SyncingLeftOnlyByCurrentJob ==
    [][(/\ status = "SYNCING"
        /\ \/ status' # "SYNCING"
           \/ taskId # NoTask /\ taskId' = NoTask)
         => \/ \E i \in 1..Len(polls) :
                  polls[i].task = taskId /\ polls' = RemoveAt(polls, i)
            \/ nextJob \in posts /\ posts' = posts \ {nextJob}]_vars

\* C19: the stuck-poll counter is per job: when a job is started the counter
\* stands at 0, and a job is given up as stuck only after that job itself
\* has answered PENDING on more than 12 polls in a row.
C19_StuckCounterPerJob ==
    [][/\ nextJob' = nextJob + 1 => pendingCountRef' = 0
       /\ TimeoutStep => streak' > PendingLimit]_vars

\* C22: when a poll of the tracked job answers FAILURE or REVOKED while the
\* widget is SYNCING, the widget (either variant) goes to ERROR, clears the
\* tracked job id (which stops the polling) and arms the timer that reverts
\* ERROR to IDLE.
C22_JobFailureHandling ==
    [][(/\ polled'.task # NoTask /\ polled'.task = taskId
        /\ status = "SYNCING"
        /\ polled'.st \in {"FAILURE", "REVOKED"})
         => /\ status' = "ERROR"
            /\ taskId' = NoTask
            /\ revertTimers' = revertTimers + 1]_vars

\* The step that completes the fetchStatus call of a post-success settle.
SettleDone ==
    \E i \in 1..Len(fetches) :
        fetches[i].origin = "settle" /\ fetches' = RemoveAt(fetches, i)

\* C23: a poll answer SUCCESS puts the widget in SUCCESS with progress 100,
\* stores a next-auto-sync time when the interval is known, notifies the
\* collaborators and schedules the settle; the settle ends in IDLE with no
\* tracked job, or in COOLDOWN when the server reports a remaining cooldown;
\* and SUCCESS is always left again.
C23_SuccessHandling ==
    /\ [][polled'.st = "SUCCESS" =>
            /\ status' = "SUCCESS"
            /\ syncProgress' = 100
            /\ autoSyncInterval # 0 => nextAutoSyncTime' # NoTime
            /\ notified'[polled'.task] > notified[polled'.task]
                  \/ notified[polled'.task] = 2
            /\ settleTimers' = settleTimers + 1]_vars
    /\ [][SettleDone =>
            /\ taskId' = NoTask
            /\ status' \in {"IDLE", "COOLDOWN"}
            /\ status' = "COOLDOWN" =>
                  variant = "cooldown" /\ cooldownRemaining' > 0]_vars
    /\ (status = "SUCCESS") ~> (status \in {"IDLE", "COOLDOWN"} /\ taskId = NoTask)

\* The mount's GET /dashboard/sync-status has not been answered yet.
MountUnanswered ==
    \E i \in 1..Len(fetches) :
        fetches[i].origin = "mount" /\ fetches[i].stage = "status"

\* C24: the answer to the mount's sync-status request decides the state: an
\* active job id gives SYNCING tracking exactly that id, with one immediate
\* status read of it under way; otherwise a remaining cooldown > 0 gives
\* COOLDOWN with that time (cooldown variant); otherwise IDLE.  Until that
\* answer, with only the cached hints, no timer tick puts the widget into
\* SYNCING or COOLDOWN.
C24_MountReconciliation ==
    /\ [][(fetched'.origin = "mount" /\ status = "IDLE" /\ taskId = NoTask) =>
            IF fetched'.active # NoTask
            THEN /\ status' = "SYNCING"
                 /\ taskId' = fetched'.active
                 /\ \E i \in 1..Len(fetches') :
                       /\ fetches'[i].stage = "task"
                       /\ fetches'[i].task = fetched'.active
            ELSE IF variant = "cooldown" /\ fetched'.rem > 0
            THEN status' = "COOLDOWN" /\ cooldownRemaining' = fetched'.rem
            ELSE status' = "IDLE" /\ taskId' = NoTask]_vars
    /\ [][(MountUnanswered /\ status = "IDLE" /\ phase' # phase) =>
            status' \notin {"SYNCING", "COOLDOWN"}]_vars

C26_CooldownCountdown ==
    /\ [][(/\ variant = "cooldown" /\ status = "COOLDOWN"
           /\ cooldownRemaining >= 1 /\ phase' # phase)
            => /\ cooldownRemaining' = cooldownRemaining - 1
               /\ status' = IF cooldownRemaining' = 0 THEN "IDLE"
                            ELSE "COOLDOWN"]_vars
    /\ [][status = "COOLDOWN" => nextJob' = nextJob /\ posts' \subseteq posts]_vars
    /\ [](cooldownRemaining >= 0)

\* C28: for each job the completion notification (triggerRefresh, together
\* with the scheduling of the settle) happens at most once, also when several
\* polls of the job are in flight and more than one answers SUCCESS.
C28_NotifiedOnce == \A j \in JobIds : notified[j] <= 1

\* C29: after a failure (status ERROR: failed start, failed or revoked job,
\* stuck-job timeout) or a rate-limited start, when the auto-sync interval is
\* known, a next-auto-sync time eventually becomes known again.
C29_AutoSyncSurvivesFailure ==
    ((status = "ERROR" \/ limited # NoLimit) /\ autoSyncInterval # 0)
        ~> (nextAutoSyncTime # NoTime)

(***************************************************************************)
(*                      CLAIMS ABOUT THE PURE FUNCTIONS                    *)
(***************************************************************************)

\* The smallest base + k * step (k an integer) that is strictly greater
\* than ref, for base <= ref.
SmallestMultipleAfter(base, step, ref) == base + ((ref - base) \div step + 1) * step

\* C11 (auto-sync scheduling rule): for every interval length L and reference
\* time T, the computed next-auto-sync instant is the smallest multiple of L
\* strictly greater than T -- counted from the epoch in the no-cooldown
\* variant, from T itself in the cooldown variant.
C11_SchedulingRule ==
    (schedule # <<>> /\ schedule.done) =>
        schedule.next =
            SmallestMultipleAfter(
                IF schedule.v = "nocooldown" THEN 0 ELSE schedule.ref,
                schedule.len * MsPerSecond, schedule.ref)

(***************************************************************************)
(*                    CLAIMS ABOUT THE SYMBOL AGGREGATOR                   *)
(***************************************************************************)
\* Rows of `items` carrying symbol `sym`, as a set of positions.
RowsOf(items, sym) == {i \in 1..Len(items) : items[i].symbol = sym}

RECURSIVE SumValue(_, _)
SumValue(items, idx) ==
    IF idx = {} THEN 0
    ELSE LET i == CHOOSE j \in idx : TRUE
         IN  items[i].value_usd + SumValue(items, idx \ {i})

RECURSIVE SumBalance(_, _)
SumBalance(items, idx) ==
    IF idx = {} THEN 0
    ELSE LET i == CHOOSE j \in idx : TRUE
         IN  items[i].balance + SumBalance(items, idx \ {i})

\* sum of v_i * c_i, a missing c_i counted as 0
RECURSIVE SumWeighted(_, _)
SumWeighted(items, idx) ==
    IF idx = {} THEN Zero
    ELSE LET i == CHOOSE j \in idx : TRUE
         IN  RatAdd(Scale(items[i].value_usd, OrZero(items[i].change_24h)),
                    SumWeighted(items, idx \ {i}))

Orderings(n) == {f \in [1..n -> 1..n] : \A i, j \in 1..n : f[i] = f[j] => i = j}

Reordered(items, f) == [i \in 1..Len(items) |-> items[f[i]]]

\* Two aggregated lists agree on the symbols and on the four numeric results.
SameNumbers(a, b) ==
    /\ {a[i].symbol : i \in 1..Len(a)} = {b[i].symbol : i \in 1..Len(b)}
    /\ \A i \in 1..Len(a), j \in 1..Len(b) :
          a[i].symbol = b[j].symbol =>
             /\ a[i].value_usd = b[j].value_usd
             /\ a[i].balance = b[j].balance
             /\ a[i].change_24h = b[j].change_24h
             /\ a[i].price_usd = b[j].price_usd

\* C13: aggregating an already aggregated list returns the same rows with the
\* same field values.
C13_AggregatorIdempotent ==
    Len(view) = 2 => view[2] = view[1]

C13_Witness ==
    /\ Len(view) = 2
    /\ Len(view[1]) = 2
    /\ Len(holdings) = MaxRows
    /\ \E i \in 1..2 : view[2][i].value_usd = 400

\* C14: however the input rows are ordered, the aggregated list has the same
\* symbols, and per symbol the same value_usd, balance, change_24h and
\* price_usd.
C14_OrderIndependence ==
    Len(view) >= 1 =>
        \A f \in Orderings(Len(holdings)) :
            SameNumbers(aggregateBySymbol(Reordered(holdings, f)), view[1])

\* C15: for a symbol with two or more input rows the aggregated change_24h is
\* (sum of v_i * c_i) / (sum of v_i) when the summed value is positive and 0
\* otherwise, a missing change counting as 0.
C15_WeightedChange ==
    Len(view) >= 1 =>
        \A k \in 1..Len(view[1]) :
            LET idx == RowsOf(holdings, view[1][k].symbol)
                total == SumValue(holdings, idx)
            IN  Cardinality(idx) >= 2 =>
                    view[1][k].change_24h =
                        IF total > 0
                        THEN RatOver(SumWeighted(holdings, idx), total)
                        ELSE Zero

\* 100 USD at +10 % and 300 USD at -2 % aggregated to 400 USD at +1 %
C15_Witness ==
    /\ Len(view) >= 1
    /\ \E k \in 1..Len(view[1]) :
          /\ view[1][k].value_usd = 400
          /\ view[1][k].change_24h = <<1, 1>>
          /\ Cardinality(RowsOf(holdings, view[1][k].symbol)) = 2

\* C16: no two output rows share a symbol, each output row's value_usd and
\* balance are the sums over the input rows of its symbol, and every output
\* row has integration_name "Multiple", also when its symbol had one row.
C16_DedupConservesTotals ==
    Len(view) >= 1 =>
        /\ \A i, j \in 1..Len(view[1]) :
              view[1][i].symbol = view[1][j].symbol => i = j
        /\ {view[1][k].symbol : k \in 1..Len(view[1])}
              = {holdings[i].symbol : i \in 1..Len(holdings)}
        /\ \A k \in 1..Len(view[1]) :
              LET idx == RowsOf(holdings, view[1][k].symbol)
              IN  /\ view[1][k].value_usd = SumValue(holdings, idx)
                  /\ view[1][k].balance = SumBalance(holdings, idx)
                  /\ view[1][k].integration_name = "Multiple"

C16_Witness ==
    /\ Len(view) = 1
    /\ Len(view[1]) = 2
    /\ \E k \in 1..2 :
          /\ Cardinality(RowsOf(holdings, view[1][k].symbol)) = 1
          /\ view[1][k].integration_name = "Multiple"
          /\ \E i \in 1..Len(holdings) :
                /\ holdings[i].symbol = view[1][k].symbol
                /\ holdings[i].integration_name = "Binance"
    /\ \E k \in 1..2 :
          /\ Cardinality(RowsOf(holdings, view[1][k].symbol)) = 2
          /\ view[1][k].value_usd = 400 /\ view[1][k].balance = 4

\* C30  Aggregation is pure.  No call of aggregateBySymbol changes a row of
\* the list it was given, and a second aggregation of the same raw list
\* returns what the first one returned.
C30_AggregationIsPure ==
    [][/\ holdings' = holdings
       /\ counted' # <<>> => counted'[1] = view'[1]]_vars

\* Both calls were made on a list holding a symbol twice, whose rows were
\* merged into totals that differ from each of the two rows.
C30_Witness ==
    /\ counted # <<>>
    /\ \E i, j \in 1..Len(holdings) :
          /\ i < j
          /\ holdings[i].symbol = holdings[j].symbol
          /\ holdings[i].value_usd = 100 /\ holdings[j].value_usd = 300
          /\ \E k \in 1..Len(counted[1]) :
                /\ counted[1][k].symbol = holdings[i].symbol
                /\ counted[1][k].value_usd = 400
                /\ view[1][k].value_usd = 400

====
